---------------------------- MODULE Spec2Model ----------------------------
(***************************************************************************)
(* Content scripts of the Mem0 browser extension: the submission cycle of  *)
(* the ChatGPT script (extension/chatgpt/content.js), of the Perplexity    *)
(* script (extension/perplexity/content.js) and of the Grok script         *)
(* (unnamed/part_003).                                                     *)
(*                                                                         *)
(* Strings are sequences of tokens.  A token is one character of text      *)
(* ("a", "b", " ", "\n"), the whole marker phrase, one memory text, or one *)
(* piece of markup.  In a contenteditable div the markup tokens are tags   *)
(* of innerHTML; in a textarea they are literal text of the value.         *)
(* innerHTML reads back the string that was assigned: the HTML parser      *)
(* closes elements left open and adds no opening tag.                      *)
(*                                                                         *)
(* Every action is one run of the event loop: a handler from the event     *)
(* that starts it to its next network, storage or timer await.  Awaits of  *)
(* already resolved promises resume in microtasks and do not end a step.   *)
(* A keydown or click takes two steps of one task: its listeners run, then *)
(* the browser takes the event's default action unless a listener has      *)
(* prevented it; nothing else runs in between.                             *)
(* The variables nTrigger, nSearch, nAdd, sendClicks, lastTrigger, last    *)
(* and reported record what the handlers did; no handler reads them.       *)
(*                                                                         *)
(* Spec is the submission cycle of the three scripts with the hooks in     *)
(* place; TypingSpec adds a user who types while a handler is suspended.   *)
(* ConversationSpec is getLastMessages over the host's conversation, and   *)
(* HookSpec the attachment of the ChatGPT script's hooks (Mem0 button,     *)
(* Sync button, Enter interceptor) by its observers.  RerenderSpec,        *)
(* TypedTextSpec and ClearingSpec are the ChatGPT cycle on a page that     *)
(* replaces the input element or the send button, with texts that hold     *)
(* "</p>", and with a user who deletes the text during a search.  SyncSpec *)
(* is the sync flow of the settings dialog.  The variables of one part     *)
(* stay as they are in the steps of the others.                            *)
(***************************************************************************)
EXTENDS Integers, Sequences, FiniteSets

\* ------------------------------------------------------------ bounds
MaxTriggers == 2
MaxDrafts == 1
\* the children of the host's message container, the count getLastMessages takes
MaxTurns == 3
MaxCount == 3
\* the changes the host makes to the document
MaxMutations == 3
\* The rows of the memory table, and the clicks on the Sync button.
MaxRows == 2
MaxSyncClicks == 2

\* ------------------------------------------------------------ tokens
\* "Here is some of my preferences/memories to help answer better (don't
\* respond to these memories but use them to assist in the response if
\* relevant):"
MARKER == "M"
\* <div id="mem0-wrapper" style="background-color: rgb(220, 252, 231); ...">
WRAPPER == "W"
\* <br class="ProseMirror-trailingBreak">
TRAILBR == "TB"
\* The characters "</p>" typed into the rich input, as its innerHTML holds
\* them ("&lt;/p&gt;").  In a text (a textarea's value, a textContent) the
\* token "/P" stands for these characters.
ENTITY == "&/P"
Tags == {WRAPPER, "S", "/S", "D", "/D", "BR", "P", "/P", TRAILBR}
WS == {" ", "\n"}

Variants == {"chatgpt", "perplexity", "grok"}
\* What the memory service may answer: the memory fields of the results.
MemLists == {<<>>, <<"m1">>, <<"m1", "m2">>}
\* A field of the response body that is missing, or holds the list R.
Absent == [has |-> FALSE, list |-> <<>>]
Results(R) == [has |-> TRUE, list |-> R]
\* How a search request may settle: rejected or answered with an error
\* status (ok FALSE), or answered 200 with a body {data: {results: R}},
\* {results: R}, or an object with neither field.
Outcomes ==
  {[ok |-> FALSE, data |-> Absent, results |-> Absent],
   [ok |-> TRUE, data |-> Absent, results |-> Absent]}
    \cup {[ok |-> TRUE, data |-> Results(R), results |-> Absent] : R \in MemLists}
    \cup {[ok |-> TRUE, data |-> Absent, results |-> Results(R)] : R \in MemLists}

\* The keydown events the user may produce.  onInput: the input element has
\* the focus, so the event is dispatched to it before it reaches the document.
Key(k, shift, ctrl, meta, focus) ==
  [key |-> k, shiftKey |-> shift, ctrlKey |-> ctrl, metaKey |-> meta,
   onInput |-> focus]
KeyEvents ==
  { Key("Enter", FALSE, FALSE, FALSE, TRUE),
    Key("Enter", TRUE, FALSE, FALSE, TRUE),
    Key("m", FALSE, TRUE, FALSE, TRUE),
    Key("m", FALSE, TRUE, FALSE, FALSE),
    Key("m", FALSE, FALSE, TRUE, TRUE) }

\* What the user may have typed.  In the rich input a paragraph holding only
\* the trailing break is ProseMirror's empty document.
Drafts(kind) ==
  IF kind = "div" THEN {<<"P", "a", "/P">>, <<"P", TRAILBR, "/P">>}
  ELSE {<<"a">>, <<"a", " ">>}

\* ------------------------------------------------------------ strings
RECURSIVE TrimLeft(_)
TrimLeft(s) == IF s # <<>> /\ Head(s) \in WS THEN TrimLeft(Tail(s)) ELSE s

RECURSIVE TrimRight(_)
TrimRight(s) ==
  IF s # <<>> /\ s[Len(s)] \in WS THEN TrimRight(SubSeq(s, 1, Len(s) - 1)) ELSE s

\* String.prototype.trim
Trim(s) == TrimRight(TrimLeft(s))

\* String.prototype.indexOf, 1-based; 0 when the token does not occur.
IndexOf(s, t) ==
  IF \E i \in 1..Len(s) : s[i] = t
  THEN CHOOSE i \in 1..Len(s) : s[i] = t /\ \A j \in 1..(i - 1) : s[j] # t
  ELSE 0

RemoveAt(s, i) == SubSeq(s, 1, i - 1) \o SubSeq(s, i + 1, Len(s))

\* s.replace(memInfoRegex, ""), memInfoRegex = /\s*<marker>[\s\S]*$/ : the
\* leftmost match starts at the whitespace run before the first marker and
\* runs to the end of the string.
ReplaceMemInfoRegex(s) ==
  LET j == IndexOf(s, MARKER)
  IN  IF j = 0 THEN s ELSE TrimRight(SubSeq(s, 1, j - 1))

\* s.replace(lastParagraphRegex, ""),
\* lastParagraphRegex = /<p><br class="ProseMirror-trailingBreak"><\/p><p>$/
ReplaceLastParagraphRegex(s) ==
  LET tail == <<"P", TRAILBR, "/P", "P">>
  IN  IF Len(s) >= 4 /\ SubSeq(s, Len(s) - 3, Len(s)) = tail
      THEN SubSeq(s, 1, Len(s) - 4)
      ELSE s

\* const endIndex = message.indexOf("</p>");
\* if (endIndex !== -1) message = message.slice(0, endIndex + 4);
SliceAtCloseP(s) ==
  LET e == IndexOf(s, "/P")
  IN  IF e = 0 THEN s ELSE SubSeq(s, 1, e)

\* Node.textContent of the contenteditable div: the text without the tags.
TextContent(html) ==
  LET text == SelectSeq(html, LAMBDA t : t \notin Tags)
  IN  [k \in 1..Len(text) |-> IF text[k] = ENTITY THEN "/P" ELSE text[k]]

RECURSIVE HtmlBullets(_)
HtmlBullets(mems) ==
  IF mems = <<>> THEN <<>>
  ELSE <<"D", "-", Head(mems), "/D">> \o HtmlBullets(Tail(mems))

\* memoriesContent of the ChatGPT script
HtmlMemoriesContent(mems) ==
  <<WRAPPER, "S", MARKER, "/S">> \o HtmlBullets(mems) \o <<"/D">>

RECURSIVE TextBullets(_)
TextBullets(mems) ==
  IF mems = <<>> THEN <<>>
  ELSE <<"-", Head(mems)>>
       \o (IF Len(mems) > 1 THEN <<"\n">> ELSE <<>>)
       \o TextBullets(Tail(mems))

\* memoriesContent of the Perplexity and Grok scripts
TextMemoriesContent(mems) == <<"\n", "\n", MARKER, "\n">> \o TextBullets(mems)

\* ------------------------------------------------------------ state
VARIABLES
  variant,          \* which content script runs on the page
  inputKind,        \* "div" (contenteditable) or "textarea"
  input,            \* innerHTML of the div / value of the textarea
  sendButton,       \* the host's send control is in the document
  hasAuth,          \* chrome.storage holds an apiKey or an access_token
  memory_enabled,   \* chrome.storage's memory_enabled is not false
  isProcessingMem0, \* the ChatGPT script's in-progress flag
  loading,          \* the Mem0 button shows its loading state
  popup,            \* the text the Mem0 button's popup shows ("" hidden)
  lastInputValue,   \* the Perplexity/Grok scripts' copy of the value
  cycles,           \* handler invocations suspended at an await
  timers,           \* pending setTimeout callbacks that click send
  nAdd,             \* POSTs made to /v1/memories/
  lastAdd,          \* the user message of the latest add request
  sent,             \* what the host sent last (<<>> before the first send)
  sendClicks,       \* per draft: clicks made on the send control
  draftId,          \* the number of drafts the user has typed
  nTrigger,         \* keydown and click events handled so far
  nSearch,          \* POSTs made to /v1/memories/search/
  lastTrigger,      \* what the latest trigger did
  event,            \* the keydown or click whose listeners have just run
  adds,             \* add requests awaiting their response
  last,             \* what the latest settled search did to the input
  reported,         \* what the latest step's release part logged ("" if nothing)
  messageContainer, \* the host's message container is in the document
  conversation,     \* the children of the message container, oldest first
  returned,         \* the latest call of getLastMessages and what it returned
  messages,         \* the array handleMem0Click built for the add request
  inputElement,     \* the element the input selector finds: its data flag, its interceptors
  mem0Buttons,      \* elements with id mem0-button in the document
  syncButtons,      \* elements with id sync-button in the document
  buttonContainer,  \* the settings dialog's button container is in the document
  mutated,          \* the mutation observers that have yet to be notified
  nMutations,       \* changes the host has made to the document
  loaded,           \* DOMContentLoaded has been dispatched to the script
  lastEnter,        \* the interceptors the latest Enter on the input ran
  table,            \* the memory table of the settings dialog and its rows
  syncs,            \* per Sync click: its syncedCount and totalCount
  syncRequests,     \* the add requests of the sync flow awaiting a response
  transmitted,      \* per table row: add requests made that carry its memory
  syncLoading,      \* the Sync button shows its loading state (disabled)
  syncPopup         \* the text of the latest popup at the Sync button

vars ==
  <<variant, inputKind, input, sendButton, hasAuth, memory_enabled,
    isProcessingMem0, loading, popup, lastInputValue, cycles, timers, nAdd, lastAdd,
    sent, sendClicks, draftId, nTrigger, nSearch, lastTrigger, event, adds,
    last, reported, messageContainer, conversation, returned, messages,
    inputElement, mem0Buttons, syncButtons, buttonContainer, mutated,
    nMutations, loaded, lastEnter, table, syncs, syncRequests, transmitted,
    syncLoading, syncPopup>>

\* What the handlers of a submission cycle never write: the settings, the
\* conversation the ChatGPT script reads for the add request, and the hooks
\* the ChatGPT script has attached to the document.
hookVars ==
  <<inputElement, mem0Buttons, syncButtons, buttonContainer, mutated,
    nMutations, loaded, lastEnter>>

\* The state of the sync flow.
syncVars ==
  <<table, syncs, syncRequests, transmitted, syncLoading, syncPopup>>

page ==
  <<variant, inputKind, hasAuth, memory_enabled, messageContainer,
    conversation, returned, messages, hookVars, syncVars>>

NoSettle ==
  [kind |-> "none", captured |-> <<>>, base |-> <<>>, mems |-> <<>>,
   out |-> <<>>, clickSend |-> FALSE, sendBtn |-> FALSE, released |-> FALSE]

Dispatched(ev, prevented, stopped) ==
  [ev |-> ev, defaultPrevented |-> prevented, propagationStopped |-> stopped]

NoEvent == Dispatched(Key("none", FALSE, FALSE, FALSE, FALSE), FALSE, FALSE)

\* The element a handler holds in a local: in the document still, or taken
\* out of it by the host with the content it then had.
InDocument == [attached |-> TRUE, content |-> <<>>]
Detached(content) == [attached |-> FALSE, content |-> content]

\* A scheduled click of the send control.  The ChatGPT script's callback
\* clicks the button it found when it scheduled the click (264-270): stale
\* says that the host has since replaced that button by a new element.  The
\* other scripts look the button up when the callback runs.
ClickTimer(draft) == [draft |-> draft, stale |-> FALSE]

NoCall == [called |-> FALSE, count |-> 0, threw |-> FALSE, value |-> <<>>]

\* An input element as the host creates it, and no input element.
FreshInput == [present |-> TRUE, enterKeyIntercepted |-> FALSE, listeners |-> 0]
NoInput == [present |-> FALSE, enterKeyIntercepted |-> FALSE, listeners |-> 0]

\* The hooks in place: one interceptor on the input, one Mem0 button.
\* No memory table in the document, the Sync button never clicked.
NoPopup == [message |-> "", count |-> 0]
NoTable == [present |-> FALSE, rows |-> <<>>]
NoSync ==
  /\ table = NoTable
  /\ syncs = <<>>
  /\ syncRequests = <<>>
  /\ transmitted = <<>>
  /\ syncLoading = FALSE
  /\ syncPopup = NoPopup

HooksAttached ==
  /\ inputElement = [present |-> TRUE, enterKeyIntercepted |-> TRUE, listeners |-> 1]
  /\ mem0Buttons = 1
  /\ syncButtons = 0
  /\ buttonContainer = FALSE
  /\ mutated = {}
  /\ nMutations = 0
  /\ loaded = TRUE
  /\ lastEnter = 0

\* The scripts' own state once the content script has loaded.
ScriptsLoaded ==
  /\ isProcessingMem0 = FALSE
  /\ loading = FALSE
  /\ popup = ""
  /\ lastInputValue = <<>>
  /\ cycles = <<>>
  /\ timers = <<>>
  /\ nAdd = 0
  /\ lastAdd = <<>>
  /\ sent = <<>>
  /\ sendClicks = [d \in 1..MaxDrafts |-> 0]
  /\ draftId = 0
  /\ nTrigger = 0
  /\ nSearch = 0
  /\ lastTrigger = "none"
  /\ event = NoEvent
  /\ adds = 0
  /\ last = NoSettle
  /\ reported = ""
  /\ returned = NoCall
  /\ messages = <<>>

Init ==
  /\ variant \in Variants
  /\ inputKind \in (IF variant = "chatgpt" THEN {"div", "textarea"} ELSE {"textarea"})
  /\ input = <<>>
  /\ sendButton = TRUE
  /\ hasAuth \in (IF variant = "chatgpt" THEN {FALSE} ELSE BOOLEAN)
  /\ memory_enabled \in (IF variant = "chatgpt" THEN {TRUE} ELSE BOOLEAN)
  /\ messageContainer = FALSE
  /\ conversation = <<>>
  /\ ScriptsLoaded
  /\ HooksAttached
  /\ NoSync

\* ------------------------------------------------------------ the page
\* The user replaces the content of the input with a new draft.  The
\* Perplexity/Grok "input" listener copies the value.
UserType ==
  /\ event = NoEvent
  /\ draftId < MaxDrafts
  /\ \E d \in Drafts(inputKind) :
       /\ input' = d
       /\ lastInputValue' = IF variant = "chatgpt" THEN lastInputValue ELSE d
  /\ draftId' = draftId + 1
  /\ reported' = ""
  /\ UNCHANGED <<page, sendButton, isProcessingMem0, loading, popup, cycles,
                 timers, nAdd, lastAdd, sent, sendClicks, nTrigger, nSearch,
                 lastTrigger, event, adds, last>>

\* The host page takes its send control out of the document or puts it
\* back (the same element).
HostRendersSendButton ==
  /\ event = NoEvent
  /\ sendButton' = ~sendButton
  /\ reported' = ""
  /\ UNCHANGED <<page, input, isProcessingMem0, loading, popup,
                 lastInputValue, cycles, timers, nAdd, lastAdd, sent, sendClicks,
                 draftId, nTrigger, nSearch, lastTrigger, event, adds, last>>

\* showPopup's setTimeout hides the popup again.
PopupHides ==
  /\ event = NoEvent
  /\ popup # ""
  /\ popup' = ""
  /\ reported' = ""
  /\ UNCHANGED <<page, input, sendButton, isProcessingMem0, loading,
                 lastInputValue, cycles, timers, nAdd, lastAdd, sent, sendClicks,
                 draftId, nTrigger, nSearch, lastTrigger, event, adds, last>>

\* The browser takes the default action of the event just dispatched.  An
\* Enter without Shift that reaches the host unsuppressed is the host's own
\* submission: it sends what the input holds and clears it.  The default
\* action of any other key, and of a click on the Mem0 button, changes
\* nothing the scripts read.
DefaultAction ==
  LET e == event.ev
      nativeSubmit == /\ e.key = "Enter" /\ ~e.shiftKey /\ e.onInput
                      /\ ~(event.defaultPrevented /\ event.propagationStopped)
                      /\ input # <<>>
  IN  /\ event # NoEvent
      /\ event' = NoEvent
      /\ sent' = IF nativeSubmit THEN input ELSE sent
      /\ input' = IF nativeSubmit THEN <<>> ELSE input
      /\ reported' = ""
      /\ UNCHANGED <<page, sendButton, isProcessingMem0, loading, popup,
                     lastInputValue, cycles, timers, nAdd, lastAdd, sendClicks,
                     draftId, nTrigger, nSearch, lastTrigger, adds, last>>

\* ------------------------------------------------------------ ChatGPT
\* getMemoryEnabledState() resolves true in the local version.
getMemoryEnabledState == TRUE

\* inputElement ? inputElement.textContent || inputElement.value : null.
\* A textarea's textContent is its (empty) default value; null, undefined
\* and "" are all falsy and read <<>> here.
getInputValue == IF inputKind = "div" THEN TextContent(input) ELSE input

\* message = message.replace(memInfoRegex, "").trim(); cut after "</p>"
StrippedMessage(raw) == SliceAtCloseP(Trim(ReplaceMemInfoRegex(raw)))

\* A search request is in flight.
SearchPending == \E j \in 1..Len(cycles) : cycles[j].phase = "search"

\* finally { isProcessingMem0 = false; }
finallyFlag_Kept == TRUE
finallyFlag == FALSE

\* if (isProcessingMem0) return;
reentrancyGuard_Off == FALSE
reentrancyGuard == isProcessingMem0

\* The promise that handleMem0Click returns is rejected (throw error in its
\* catch block).  The Enter interceptor chains .catch(console.error) to it;
\* the Ctrl+M listener awaits it in an async function whose promise nobody
\* holds, and the Mem0 button's click listener drops it: there the runtime
\* reports an unhandled rejection.
catchesRejection(via) == via = "enter"
unhandledRejection == "Uncaught (in promise)"
rejected(via) == IF catchesRejection(via) THEN "" ELSE unhandledRejection

\* handleMem0Click up to its first network await.  The awaits of
\* getMemoryEnabledState() resume in microtasks, before any other event.
\* getLastMessages(2) reads the host's conversation and throws when a turn
\* lacks the element it looks for: the catch block reports, the finally
\* block clears the flag, all before the handler suspends.
handleMem0Click(via, hasPopup, clickSendButton) ==
  LET raw == getInputValue
      message == StrippedMessage(raw)
  IN  /\ variant = "chatgpt"
      /\ event = NoEvent
      /\ getMemoryEnabledState
      /\ nTrigger < MaxTriggers
      /\ nTrigger' = nTrigger + 1
      /\ IF raw = <<>>
         THEN /\ loading' = FALSE
              /\ popup' = IF hasPopup THEN "No input message found" ELSE popup
              /\ lastTrigger' = "empty"
              /\ reported' = ""
              /\ UNCHANGED <<isProcessingMem0, cycles, nSearch>>
         ELSE IF reentrancyGuard
         THEN /\ loading' = TRUE
              /\ lastTrigger' = "rejected"
              /\ reported' = ""
              /\ UNCHANGED <<isProcessingMem0, cycles, nSearch, popup>>
         ELSE \/ /\ loading' = FALSE
                 /\ popup' = IF hasPopup
                             THEN "Error connecting to local Mem0 server"
                             ELSE popup
                 /\ isProcessingMem0' = finallyFlag
                 /\ lastTrigger' = "threw"
                 /\ reported' = rejected(via)
                 /\ UNCHANGED <<cycles, nSearch>>
              \/ /\ loading' = TRUE
                 /\ isProcessingMem0' = TRUE
                 /\ cycles' = Append(cycles,
                      [phase |-> "search", via |-> via, draft |-> draftId,
                       reentrant |-> SearchPending,
                       captured |-> input, message |-> message,
                       clickSend |-> clickSendButton, popup |-> hasPopup,
                       inputElement |-> InDocument])
                 /\ nSearch' = nSearch + 1
                 /\ lastTrigger' = "started"
                 /\ reported' = ""
                 /\ UNCHANGED popup
      /\ UNCHANGED <<page, input, sendButton, lastInputValue, timers, nAdd, lastAdd,
                     sent, sendClicks, draftId, adds, last>>

\* addEnterKeyInterception's keydown listener on the input element:
\* if (event.key === "Enter" && !event.shiftKey)
enterKeyIntercepted(ev) == ev.onInput /\ ev.key = "Enter" /\ ~ev.shiftKey

\* What that listener calls on the event before its first await.
interceptorSyncPart_None == {}
interceptorSyncPart == {"preventDefault", "stopPropagation"}

\* initializeMem0Integration's keydown listener on the document:
\* if (event.ctrlKey && event.key === "m")
ctrlMPressed(ev) == ev.ctrlKey /\ ev.key = "m"

\* keydown Enter without Shift on the input: suppressed, then handleMem0Click(null, true)
ChatGPTEnter ==
  \E ev \in KeyEvents :
    /\ enterKeyIntercepted(ev)
    /\ event' = Dispatched(ev, "preventDefault" \in interceptorSyncPart,
                               "stopPropagation" \in interceptorSyncPart)
    /\ handleMem0Click("enter", FALSE, TRUE)

\* keydown Ctrl+M anywhere in the document: event.preventDefault(), then
\* handleMem0Click(null, true)
ChatGPTCtrlM ==
  \E ev \in KeyEvents :
    /\ ~enterKeyIntercepted(ev)
    /\ ctrlMPressed(ev)
    /\ event' = Dispatched(ev, TRUE, FALSE)
    /\ handleMem0Click("ctrlm", FALSE, TRUE)

\* Any other keydown: neither listener's condition holds and the event is
\* left to the host.
ChatGPTOtherKey ==
  \E ev \in KeyEvents :
    /\ variant = "chatgpt"
    /\ ~enterKeyIntercepted(ev)
    /\ ~ctrlMPressed(ev)
    /\ event = NoEvent
    /\ nTrigger < MaxTriggers
    /\ nTrigger' = nTrigger + 1
    /\ event' = Dispatched(ev, FALSE, FALSE)
    /\ lastTrigger' = "ignored"
    /\ reported' = ""
    /\ UNCHANGED <<page, input, sendButton, isProcessingMem0, loading, popup,
                   lastInputValue, cycles, timers, nAdd, lastAdd, sent,
                   sendClicks, draftId, nSearch, adds, last>>

\* click on the Mem0 button (addMem0Button): handleMem0Click(popup)
ChatGPTButton ==
  /\ event' = Dispatched(Key("click", FALSE, FALSE, FALSE, FALSE), FALSE, FALSE)
  /\ handleMem0Click("button", TRUE, FALSE)

\* if (sendButton) { ... } else { console.error("Send button not found"); }
sendButtonNotFound_Silent == ""
sendButtonNotFound == "Send button not found"

\* responseData.data?.results || responseData.results || [] and its map to
\* the memory fields: an array, even an empty one, is truthy.
ChatGPTMemories(resp) ==
  [ok |-> resp.ok,
   mems |-> IF resp.data.has THEN resp.data.list
            ELSE IF resp.results.has THEN resp.results.list
            ELSE <<>>]

\* addMemoryWithContext(messages).catch(...): the promise is not awaited.
addAwaited_Yes == TRUE
addAwaited == FALSE

\* The content the ChatGPT script writes when memories were found.
ChatGPTCompose(current, mems) ==
  LET currentContent ==
        Trim(ReplaceLastParagraphRegex(Trim(ReplaceMemInfoRegex(current))))
  IN  IF inputKind = "div"
      THEN currentContent \o <<"D", "BR", "/D">> \o HtmlMemoriesContent(mems)
      ELSE currentContent \o <<"\n">> \o HtmlMemoriesContent(mems)

\* handleMem0Click from the search response on: the fetch settles (the
\* response and its json() body), the input is rewritten, the click is
\* scheduled, the add request is made, the flag is cleared.
ChatGPTSearchSettles(i, resp) ==
  LET c == cycles[i]
      o == ChatGPTMemories(resp)
      found == o.ok /\ o.mems # <<>>
      \* inputElement is the element found before the search (153-155)
      current == IF c.inputElement.attached THEN input
                 ELSE c.inputElement.content
      out == IF ~o.ok THEN input
             ELSE IF found THEN ChatGPTCompose(current, o.mems)
             ELSE c.message
      release == o.ok /\ c.clickSend /\ sendButton
  IN  /\ variant = "chatgpt"
      /\ event = NoEvent
      /\ c.phase = "search"
      /\ input' = IF c.inputElement.attached THEN out ELSE input
      /\ popup' = IF ~c.popup THEN popup
                  ELSE IF ~o.ok THEN "Error connecting to local Mem0 server"
                  ELSE IF found THEN popup
                  ELSE "No memories found"
      /\ loading' = FALSE
      /\ timers' = IF release THEN Append(timers, ClickTimer(c.draft)) ELSE timers
      /\ nAdd' = IF o.ok THEN nAdd + 1 ELSE nAdd
      /\ adds' = IF o.ok THEN adds + 1 ELSE adds
      /\ lastAdd' = IF o.ok THEN c.message ELSE lastAdd
      /\ isProcessingMem0' = IF o.ok /\ addAwaited THEN isProcessingMem0
                              ELSE finallyFlag
      /\ cycles' = RemoveAt(cycles, i)
      /\ last' = [kind |-> IF ~o.ok THEN "error"
                           ELSE IF found THEN "memories" ELSE "empty",
                  captured |-> c.captured, base |-> current, mems |-> o.mems,
                  out |-> out, clickSend |-> c.clickSend,
                  sendBtn |-> sendButton, released |-> release]
      \* else { console.error("Send button not found"); }
      /\ reported' = IF ~o.ok THEN rejected(c.via)
                     ELSE IF c.clickSend /\ ~sendButton
                     THEN sendButtonNotFound
                     ELSE ""
      /\ UNCHANGED <<page, sendButton, lastInputValue, sent, sendClicks,
                     draftId, nTrigger, nSearch, lastTrigger, event>>

\* ------------------------------------------------- Perplexity and Grok
\* handleEnterKey: keydown Enter without Shift, the textarea focused.  With
\* text in the textarea the event is suppressed and handleMem0Processing
\* runs to its first await (chrome.storage.sync.get); without, the key is
\* left to the host, which has nothing to send.  The textarea's own
\* keydown listener copies the value.
handleEnterKey ==
  LET capturedText == Trim(input)
  IN  /\ variant \in {"perplexity", "grok"}
      /\ event = NoEvent
      /\ nTrigger < MaxTriggers
      /\ nTrigger' = nTrigger + 1
      /\ lastInputValue' = input
      \* event.preventDefault(); event.stopPropagation(); if (capturedText)
      /\ event' = Dispatched(Key("Enter", FALSE, FALSE, FALSE, TRUE),
                             capturedText # <<>>, capturedText # <<>>)
      /\ IF capturedText # <<>>
         THEN /\ cycles' = Append(cycles,
                   [phase |-> "storage", via |-> "enter", draft |-> draftId,
                    reentrant |-> SearchPending,
                    captured |-> input, message |-> capturedText,
                    clickSend |-> TRUE, popup |-> FALSE,
                    inputElement |-> InDocument])
              /\ lastTrigger' = "started"
         ELSE /\ lastTrigger' = "empty"
              /\ UNCHANGED cycles
      /\ reported' = ""
      /\ UNCHANGED <<page, input, sendButton, isProcessingMem0, loading,
                     popup, timers, nAdd, lastAdd, sent, sendClicks, draftId, nSearch,
                     adds, last>>

\* What StorageResolves would be if the click were scheduled together with
\* the search request.
StorageResolves_ClickFirst(i) ==
  /\ variant \in {"perplexity", "grok"}
  /\ event = NoEvent
  /\ cycles[i].phase = "storage"
  /\ cycles' = [cycles EXCEPT ![i].phase = "search"]
  /\ nSearch' = nSearch + 1
  /\ timers' = Append(timers, ClickTimer(cycles[i].draft))
  /\ reported' = ""
  /\ UNCHANGED <<page, input, sendButton, isProcessingMem0, loading, popup,
                 lastInputValue, nAdd, lastAdd, sent, sendClicks, draftId,
                 nTrigger, lastTrigger, event, adds, last>>

\* responseData.data?.results || responseData.results || responseData and
\* its map to the memory fields: with neither field the value is the response
\* object, which has no map method, and the call throws into the catch block
\* like a failed request.
TextareaMemories(resp) ==
  [ok |-> resp.ok /\ (resp.data.has \/ resp.results.has),
   mems |-> IF resp.data.has THEN resp.data.list
            ELSE IF resp.results.has THEN resp.results.list
            ELSE <<>>]

\* handleMem0Processing from the storage callback to the search fetch.
StorageResolves(i) ==
  LET c == cycles[i]
  IN  /\ variant \in {"perplexity", "grok"}
      /\ event = NoEvent
      /\ c.phase = "storage"
      /\ IF ~hasAuth
         THEN \* "No API Key or Access Token found": return
              /\ cycles' = RemoveAt(cycles, i)
              /\ UNCHANGED <<timers, nSearch>>
         ELSE IF ~memory_enabled
         THEN \* clickSendButtonWithDelay(); return
              /\ cycles' = RemoveAt(cycles, i)
              /\ timers' = Append(timers, ClickTimer(c.draft))
              /\ UNCHANGED nSearch
         ELSE /\ cycles' = [cycles EXCEPT ![i].phase = "search"]
              /\ nSearch' = nSearch + 1
              /\ UNCHANGED timers
      /\ reported' = ""
      /\ UNCHANGED <<page, input, sendButton, isProcessingMem0, loading,
                     popup, lastInputValue, nAdd, lastAdd, sent, sendClicks, draftId,
                     nTrigger, lastTrigger, event, adds, last>>

\* Perplexity: handleMem0Processing from the search response on.
PerplexitySearchSettles(i, resp) ==
  LET c == cycles[i]
      o == TextareaMemories(resp)
      originalMessage == c.message
      found == o.ok /\ o.mems # <<>>
      out == IF found THEN originalMessage \o TextMemoriesContent(o.mems)
             ELSE originalMessage
  IN  /\ variant = "perplexity"
      /\ event = NoEvent
      /\ c.phase = "search"
      \* setInputValue, also in the catch block
      /\ input' = out
      /\ lastInputValue' = out
      /\ timers' = IF o.ok THEN Append(timers, ClickTimer(c.draft)) ELSE timers
      /\ nAdd' = IF o.ok THEN nAdd + 1 ELSE nAdd
      /\ adds' = IF o.ok THEN adds + 1 ELSE adds
      /\ lastAdd' = IF o.ok THEN c.message ELSE lastAdd
      /\ cycles' = RemoveAt(cycles, i)
      /\ last' = [kind |-> IF ~o.ok THEN "error"
                           ELSE IF found THEN "memories" ELSE "empty",
                  captured |-> c.captured, base |-> input, mems |-> o.mems,
                  out |-> out, clickSend |-> c.clickSend,
                  sendBtn |-> sendButton, released |-> o.ok]
      /\ reported' = ""
      /\ UNCHANGED <<page, sendButton, isProcessingMem0, loading, popup, sent,
                     sendClicks, draftId, nTrigger, nSearch, lastTrigger,
                     event>>

\* Grok: the prefix strip applied to lastInputValue
GrokStripLastInputValue(v) ==
  LET prefixIndex == IndexOf(v, MARKER)
  IN  IF prefixIndex # 0 THEN Trim(SubSeq(v, 1, prefixIndex - 1)) ELSE v

\* Grok: handleMem0Processing from the search response on.
GrokSearchSettles(i, resp) ==
  LET c == cycles[i]
      o == TextareaMemories(resp)
      capturedText == c.message
      found == o.ok /\ o.mems # <<>>
      out == IF found THEN capturedText \o TextMemoriesContent(o.mems)
             ELSE input
  IN  /\ variant = "grok"
      /\ event = NoEvent
      /\ c.phase = "search"
      /\ input' = out
      /\ lastInputValue' = IF found THEN out
                           \* the strip comes before the map
                           ELSE IF resp.ok THEN GrokStripLastInputValue(lastInputValue)
                           ELSE lastInputValue
      /\ timers' = IF o.ok THEN Append(timers, ClickTimer(c.draft)) ELSE timers
      /\ nAdd' = IF o.ok THEN nAdd + 1 ELSE nAdd
      /\ adds' = IF o.ok THEN adds + 1 ELSE adds
      /\ lastAdd' = IF o.ok THEN c.message ELSE lastAdd
      /\ cycles' = RemoveAt(cycles, i)
      /\ last' = [kind |-> IF ~o.ok THEN "error"
                           ELSE IF found THEN "memories" ELSE "empty",
                  captured |-> c.captured, base |-> input, mems |-> o.mems,
                  out |-> out, clickSend |-> c.clickSend,
                  sendBtn |-> sendButton, released |-> o.ok]
      /\ reported' = ""
      /\ UNCHANGED <<page, sendButton, isProcessingMem0, loading, popup, sent,
                     sendClicks, draftId, nTrigger, nSearch, lastTrigger,
                     event>>

\* ------------------------------------------------------------ release
\* The oldest send timer fires.  The ChatGPT script clicks the button it
\* found when it set the timer; the Perplexity and Grok scripts look the
\* button up now and click it if it is there.  A click on the attached
\* button makes the host send what the input holds and clear it.
SendTimerFires ==
  LET t == Head(timers)
      clicked == variant = "chatgpt" \/ sendButton
      hostSends == clicked /\ sendButton /\ ~t.stale /\ input # <<>>
  IN  /\ timers # <<>>
      /\ event = NoEvent
      /\ timers' = Tail(timers)
      /\ sendClicks' = IF clicked /\ t.draft \in DOMAIN sendClicks
                       THEN [sendClicks EXCEPT ![t.draft] = @ + 1]
                       ELSE sendClicks
      /\ sent' = IF hostSends THEN input ELSE sent
      /\ input' = IF hostSends THEN <<>> ELSE input
      /\ reported' = IF clicked THEN "" ELSE sendButtonNotFound
      /\ UNCHANGED <<page, sendButton, isProcessingMem0, loading, popup,
                     lastInputValue, cycles, nAdd, lastAdd, draftId, nTrigger, nSearch,
                     lastTrigger, event, adds, last>>

\* ------------------------------------------------------------ add
\* What AddSettles would be if the completion of an add request cleared the
\* in-progress flag.
AddSettles_ClearsFlag(ok) ==
  /\ adds > 0
  /\ event = NoEvent
  /\ adds' = adds - 1
  /\ nAdd' = IF variant = "chatgpt" /\ ~ok THEN nAdd + 1 ELSE nAdd
  /\ isProcessingMem0' = FALSE
  /\ reported' = ""
  /\ UNCHANGED <<page, input, sendButton, loading, popup, lastInputValue,
                 cycles, timers, lastAdd, sent, sendClicks, draftId, nTrigger,
                 nSearch, lastTrigger, event, last>>

\* The response to an add request arrives, or the request fails.  The
\* Perplexity and Grok scripts log a failure.  The ChatGPT script's
\* addMemoryWithContext throws on a failure or a non-2xx status and its
\* catch block POSTs the messages again, without handlers on that request.
AddSettles(ok) ==
  /\ adds > 0
  /\ event = NoEvent
  /\ adds' = adds - 1
  /\ nAdd' = IF variant = "chatgpt" /\ ~ok THEN nAdd + 1 ELSE nAdd
  /\ isProcessingMem0' = IF variant = "chatgpt" /\ addAwaited THEN finallyFlag
                          ELSE isProcessingMem0
  /\ reported' = ""
  /\ UNCHANGED <<page, input, sendButton, loading, popup, lastInputValue,
                 cycles, timers, lastAdd, sent, sendClicks, draftId, nTrigger,
                 nSearch, lastTrigger, event, last>>

\* ------------------------------------------------------- conversation
\* A child of the message container: whether it holds an element with
\* data-message-author-role "user", one with "assistant", whether that
\* element holds the element the text is read from (.whitespace-pre-wrap,
\* .markdown), and the text.  A child without a role element has nothing
\* that is read.
Turns ==
  {t \in [user : BOOLEAN, assistant : BOOLEAN, inner : BOOLEAN,
          text : {<<"a">>, <<" ", "b">>}] :
     (t.user = t.assistant) => (t.inner /\ t.text = <<"a">>)}

\* if (messages.length >= count) break;
breakAt_Late(msgs, count) == Len(msgs) > count
breakAt(msgs, count) == Len(msgs) >= count

\* getLastMessages's loop over the reversed children: els is what is left
\* of Array.from(messageContainer.children).reverse(), msgs the array built
\* so far.  querySelector(...) of a missing inner element is null and
\* reading its textContent throws.
RECURSIVE getLastMessagesLoop(_, _, _)
getLastMessagesLoop(els, count, msgs) ==
  IF els = <<>> \/ breakAt(msgs, count)
  THEN [threw |-> FALSE, value |-> msgs]
  ELSE LET element == Head(els)
       IN  IF element.user
           THEN IF ~element.inner THEN [threw |-> TRUE, value |-> <<>>]
                ELSE getLastMessagesLoop(Tail(els), count,
                       <<[role |-> "user", content |-> Trim(element.text)]>>
                         \o msgs)
           ELSE IF element.assistant
           THEN IF ~element.inner THEN [threw |-> TRUE, value |-> <<>>]
                ELSE getLastMessagesLoop(Tail(els), count,
                       <<[role |-> "assistant", content |-> Trim(element.text)]>>
                         \o msgs)
           ELSE getLastMessagesLoop(Tail(els), count, msgs)

Reverse(s) == [i \in 1..Len(s) |-> s[Len(s) + 1 - i]]

\* getLastMessages(count)
getLastMessages(count) ==
  IF ~messageContainer THEN [threw |-> FALSE, value |-> <<>>]
  ELSE getLastMessagesLoop(Reverse(conversation), count, <<>>)

handlerVars ==
  <<variant, inputKind, input, hasAuth, memory_enabled,
    isProcessingMem0, loading, popup, lastInputValue, cycles, timers, nAdd,
    lastAdd, sent, sendClicks, draftId, nTrigger, nSearch, lastTrigger,
    event, adds, last, reported, syncVars>>

cycleVars == <<sendButton, handlerVars, hookVars>>

conversationVars == <<messageContainer, conversation, returned, messages>>

\* A call of getLastMessages(count).
CallGetLastMessages ==
  \E count \in 0..MaxCount :
    LET r == getLastMessages(count)
    IN  /\ returned' = [called |-> TRUE, count |-> count, threw |-> r.threw,
                        value |-> r.value]
        /\ UNCHANGED <<cycleVars, messageContainer, conversation, messages>>

\* handleMem0Click: const messages = getLastMessages(2);
\* messages.push({ role: "user", content: message }); the array is what
\* addMemoryWithContext posts.  When getLastMessages throws no array is
\* built.
BuildMessages ==
  LET r == getLastMessages(2)
      message == StrippedMessage(getInputValue)
  IN  /\ getInputValue # <<>>
      /\ ~r.threw
      /\ messages' = Append(r.value, [role |-> "user", content |-> message])
      /\ UNCHANGED <<cycleVars, messageContainer, conversation, returned>>

\* The host appends a turn to the conversation (before the script reads it).
HostAppendsTurn ==
  /\ messageContainer
  /\ ~returned.called
  /\ messages = <<>>
  /\ Len(conversation) < MaxTurns
  /\ \E t \in Turns : conversation' = Append(conversation, t)
  /\ UNCHANGED <<cycleVars, messageContainer, returned, messages>>

\* The ChatGPT page with a conversation, the user's text in the input.
ConversationInit ==
  /\ variant = "chatgpt"
  /\ inputKind \in {"div", "textarea"}
  /\ input \in Drafts(inputKind)
  /\ sendButton = TRUE
  /\ hasAuth = FALSE
  /\ memory_enabled = TRUE
  /\ messageContainer \in BOOLEAN
  /\ conversation = <<>>
  /\ NoSync
  /\ isProcessingMem0 = FALSE
  /\ loading = FALSE
  /\ popup = ""
  /\ lastInputValue = <<>>
  /\ cycles = <<>>
  /\ timers = <<>>
  /\ nAdd = 0
  /\ lastAdd = <<>>
  /\ sent = <<>>
  /\ sendClicks = [d \in 1..MaxDrafts |-> 0]
  /\ draftId = 1
  /\ nTrigger = 0
  /\ nSearch = 0
  /\ lastTrigger = "none"
  /\ event = NoEvent
  /\ adds = 0
  /\ last = NoSettle
  /\ reported = ""
  /\ returned = NoCall
  /\ messages = <<>>
  /\ HooksAttached

ConversationNext ==
  \/ CallGetLastMessages
  \/ BuildMessages
  \/ HostAppendsTurn

ConversationSpec == ConversationInit /\ [][ConversationNext]_vars

\* -------------------------------------------------------------- hooks
\* if (sendButton && !document.querySelector("#mem0-button"))
mem0ButtonMissing_Always == TRUE
mem0ButtonMissing == mem0Buttons = 0

\* addMem0Button: the number of Mem0 buttons after the call.
addMem0Button ==
  IF sendButton /\ mem0ButtonMissing THEN mem0Buttons + 1 ELSE mem0Buttons

\* addSyncButton: the number of Sync buttons after the call.  With the
\* container in the document the button is created if there is none and put
\* into the container; without, the button found is removed.
addSyncButton ==
  IF buttonContainer
  THEN IF syncButtons = 0 THEN 1 ELSE syncButtons
  ELSE IF syncButtons > 0 THEN syncButtons - 1 ELSE 0

\* addEnterKeyInterception: the input element after the call.
addEnterKeyInterception_Never(el) == el
addEnterKeyInterception(el) ==
  IF el.present /\ ~el.enterKeyIntercepted
  THEN [el EXCEPT !.enterKeyIntercepted = TRUE, !.listeners = @ + 1]
  ELSE el

\* Both observers watch childList changes in the subtree of document.body.
Observers == {"observer", "observerForEnterKey"}

\* The host replaces the input element by a new one, or renders the first.
HostReplacesInput ==
  /\ nMutations < MaxMutations
  /\ nMutations' = nMutations + 1
  /\ inputElement' = FreshInput
  /\ mutated' = Observers
  /\ UNCHANGED <<sendButton, mem0Buttons, syncButtons, buttonContainer, loaded,
                 lastEnter, handlerVars, conversationVars>>

\* The host removes the part of the document that holds the Mem0 button.
HostRemovesMem0Button ==
  /\ nMutations < MaxMutations
  /\ nMutations' = nMutations + 1
  /\ mem0Buttons > 0
  /\ mem0Buttons' = 0
  /\ mutated' = Observers
  /\ UNCHANGED <<sendButton, inputElement, syncButtons, buttonContainer, loaded,
                 lastEnter, handlerVars, conversationVars>>

\* The host renders its send button, or removes it: the button alone, or
\* with the elements around it, the Mem0 button among them.
HostChangesSendButton ==
  /\ nMutations < MaxMutations
  /\ nMutations' = nMutations + 1
  /\ sendButton' = ~sendButton
  /\ mem0Buttons' \in (IF sendButton THEN {mem0Buttons, 0} ELSE {mem0Buttons})
  /\ mutated' = Observers
  /\ UNCHANGED <<inputElement, syncButtons, buttonContainer, loaded, lastEnter,
                 handlerVars, conversationVars>>

\* The host opens the dialog that holds the button container, or closes it:
\* the container is removed with what it holds, or is no longer matched by
\* the selector while the Sync button stays in the document.
HostChangesButtonContainer ==
  /\ nMutations < MaxMutations
  /\ nMutations' = nMutations + 1
  /\ buttonContainer' = ~buttonContainer
  /\ syncButtons' \in (IF buttonContainer THEN {syncButtons, 0} ELSE {syncButtons})
  /\ mutated' = Observers
  /\ UNCHANGED <<sendButton, inputElement, mem0Buttons, loaded, lastEnter,
                 handlerVars, conversationVars>>

\* observer's callback: addMem0Button(); addSyncButton();  What the calls
\* insert or remove is a change of the document both observers are told of.
ObserverCallback ==
  /\ "observer" \in mutated
  /\ mem0Buttons' = addMem0Button
  /\ syncButtons' = addSyncButton
  /\ mutated' = IF mem0Buttons' # mem0Buttons \/ syncButtons' # syncButtons
                THEN Observers
                ELSE mutated \ {"observer"}
  /\ UNCHANGED <<sendButton, inputElement, buttonContainer, nMutations, loaded,
                 lastEnter, handlerVars, conversationVars>>

\* observerForEnterKey's callback: addEnterKeyInterception();  Setting the
\* data attribute is no childList change.
ObserverForEnterKeyCallback ==
  /\ "observerForEnterKey" \in mutated
  /\ inputElement' = addEnterKeyInterception(inputElement)
  /\ mutated' = mutated \ {"observerForEnterKey"}
  /\ UNCHANGED <<sendButton, mem0Buttons, syncButtons, buttonContainer,
                 nMutations, loaded, lastEnter, handlerVars, conversationVars>>

\* The DOMContentLoaded listener, if the event comes after the script has
\* run: addMem0Button(); addSyncButton(); addEnterKeyInterception();
DOMContentLoaded ==
  /\ ~loaded
  /\ mutated = {}
  /\ loaded' = TRUE
  /\ mem0Buttons' = addMem0Button
  /\ syncButtons' = addSyncButton
  /\ inputElement' = addEnterKeyInterception(inputElement)
  /\ mutated' = IF mem0Buttons' # mem0Buttons \/ syncButtons' # syncButtons
                THEN Observers
                ELSE mutated
  /\ UNCHANGED <<sendButton, buttonContainer, nMutations, lastEnter,
                 handlerVars, conversationVars>>

\* keydown Enter on the input element, once the observers have been told of
\* every change (their callbacks run before the next event is dispatched):
\* each interceptor on the element runs.
EnterOnInput ==
  /\ mutated = {}
  /\ inputElement.present
  /\ lastEnter' = inputElement.listeners
  /\ UNCHANGED <<sendButton, inputElement, mem0Buttons, syncButtons,
                 buttonContainer, mutated, nMutations, loaded, handlerVars,
                 conversationVars>>

\* The ChatGPT page as initializeMem0Integration leaves it: the listeners and
\* the observers registered, nothing attached yet.
HookInit ==
  /\ variant = "chatgpt"
  /\ inputKind \in {"div", "textarea"}
  /\ input = <<>>
  /\ sendButton \in BOOLEAN
  /\ hasAuth = FALSE
  /\ memory_enabled = TRUE
  /\ messageContainer = FALSE
  /\ conversation = <<>>
  /\ ScriptsLoaded
  /\ NoSync
  /\ inputElement \in {FreshInput, NoInput}
  /\ mem0Buttons = 0
  /\ syncButtons = 0
  /\ buttonContainer \in BOOLEAN
  /\ mutated = {}
  /\ nMutations = 0
  /\ loaded = FALSE
  /\ lastEnter = 0

HookNext ==
  \/ HostReplacesInput
  \/ HostRemovesMem0Button
  \/ HostChangesSendButton
  \/ HostChangesButtonContainer
  \/ ObserverCallback
  \/ ObserverForEnterKeyCallback
  \/ DOMContentLoaded
  \/ EnterOnInput

HookSpec == HookInit /\ [][HookNext]_vars

\* The observers' callbacks are microtasks of the task that changed the
\* document: they run.
HookFairSpec ==
  /\ HookInit
  /\ [][HookNext]_vars
  /\ WF_vars(ObserverCallback)
  /\ WF_vars(ObserverForEnterKeyCallback)

\* ------------------------------------------------------------ system
Next ==
  \/ UserType
  \/ HostRendersSendButton
  \/ PopupHides
  \/ DefaultAction
  \/ ChatGPTEnter
  \/ ChatGPTCtrlM
  \/ ChatGPTOtherKey
  \/ ChatGPTButton
  \/ \E i \in 1..Len(cycles), o \in Outcomes : ChatGPTSearchSettles(i, o)
  \/ handleEnterKey
  \/ \E i \in 1..Len(cycles) : StorageResolves(i)
  \/ \E i \in 1..Len(cycles), o \in Outcomes : PerplexitySearchSettles(i, o)
  \/ \E i \in 1..Len(cycles), o \in Outcomes : GrokSearchSettles(i, o)
  \/ SendTimerFires
  \/ \E ok \in BOOLEAN : AddSettles(ok)

Spec == Init /\ [][Next]_vars

\* The user types one more character while a handler is suspended: at the
\* end of the textarea's value, at the end of the rich input's first
\* paragraph.  The Perplexity/Grok "input" listener copies the value.
UserTypesMore ==
  LET p == IndexOf(input, "/P")
      typed == IF p = 0 THEN Append(input, "k")
               ELSE SubSeq(input, 1, p - 1) \o <<"k">> \o SubSeq(input, p, Len(input))
  IN  /\ event = NoEvent
      /\ cycles # <<>>
      /\ input # <<>>
      /\ IndexOf(input, "k") = 0
      /\ input' = typed
      /\ lastInputValue' = IF variant = "chatgpt" THEN lastInputValue ELSE typed
      /\ reported' = ""
      /\ UNCHANGED <<page, sendButton, isProcessingMem0, loading, popup, cycles,
                     timers, nAdd, lastAdd, sent, sendClicks, draftId, nTrigger,
                     nSearch, lastTrigger, event, adds, last>>

\* The page of the ChatGPT script.
ChatGPTInit == Init /\ variant = "chatgpt"

\* ------------------------------------------------------------ sync
\* A row of the memory table: a first cell whose div holds a memory text, a
\* row without cells, or a first cell without the div.
NoCells == "tr"
NoDiv == "td"
Rows == {"m1", "m2", NoCells, NoDiv}
RowLists == UNION {[1..n -> Rows] : n \in 0..MaxRows}
Tables == {[present |-> TRUE, rows |-> rows] : rows \in RowLists}

\* The add requests one run of rows.forEach and the call after it make:
\* sendMemoryToMem0(memory) per row with a cell, then
\* sendMemoriesToMem0(memories) with all of them.  A first cell without the
\* div makes querySelector(...).textContent throw: the handler ends there.
sendMemoryToMem0(id, r) == [sync |-> id, batch |-> FALSE, rows |-> {r}]
sendMemoriesToMem0(id, memories) ==
  <<[sync |-> id, batch |-> TRUE, rows |-> memories]>>

SyncRequests(id, rows) ==
  LET t == IndexOf(rows, NoDiv)
      threw == t # 0
      pushed(r) == rows[r] # NoCells /\ (~threw \/ r < t)
      memories == {r \in 1..Len(rows) : pushed(r)}
      each == SelectSeq([r \in 1..Len(rows) |-> r], pushed)
  IN  [r \in 1..Len(each) |-> sendMemoryToMem0(id, each[r])]
        \o (IF threw THEN <<>> ELSE sendMemoriesToMem0(id, memories))

\* A click on the Sync button (a disabled button receives none), with the
\* table in the document.
handleSyncClick ==
  LET id == Len(syncs) + 1
      new == SyncRequests(id, table.rows)
  IN  /\ variant = "chatgpt"
      /\ getMemoryEnabledState
      /\ table.present
      /\ ~syncLoading
      /\ Len(syncs) < MaxSyncClicks
      /\ syncLoading' = TRUE
      /\ syncs' = Append(syncs, [syncedCount |-> 0,
                                 totalCount |-> Len(table.rows)])
      /\ syncRequests' = syncRequests \o new
      /\ transmitted' =
           [r \in 1..Len(table.rows) |->
              transmitted[r]
                + Cardinality({k \in 1..Len(new) : r \in new[k].rows})]
      /\ UNCHANGED <<table, syncPopup, sendButton, hookVars, conversationVars,
                     variant, inputKind, input, hasAuth, memory_enabled,
                     isProcessingMem0, loading, popup, lastInputValue, cycles,
                     timers, nAdd, lastAdd, sent, sendClicks, draftId,
                     nTrigger, nSearch, lastTrigger, event, adds, last,
                     reported>>

\* The response to an add request of the sync flow arrives, or the request
\* fails: the .then and .catch callbacks of handleSyncClick.
SyncRequestSettles(k, ok) ==
  LET q == syncRequests[k]
      s == syncs[q.sync]
      n == IF ok /\ ~q.batch THEN s.syncedCount + 1 ELSE s.syncedCount
      done == q.batch \/ n = s.totalCount
  IN  /\ k \in 1..Len(syncRequests)
      /\ syncRequests' = RemoveAt(syncRequests, k)
      /\ syncs' = [syncs EXCEPT ![q.sync].syncedCount = n]
      /\ syncPopup' =
           IF ~done THEN syncPopup
           ELSE IF q.batch /\ ~ok
           THEN [message |-> "Error syncing memories", count |-> 0]
           ELSE IF q.batch
           THEN [message |-> "memories synced", count |-> Cardinality(q.rows)]
           ELSE IF ok THEN [message |-> "memories synced", count |-> n]
           ELSE [message |-> "of totalCount memories synced", count |-> n]
      /\ syncLoading' = IF done THEN FALSE ELSE syncLoading
      /\ UNCHANGED <<table, transmitted, sendButton, hookVars,
                     conversationVars, variant, inputKind, input, hasAuth,
                     memory_enabled, isProcessingMem0, loading, popup,
                     lastInputValue, cycles, timers, nAdd, lastAdd, sent,
                     sendClicks, draftId, nTrigger, nSearch, lastTrigger,
                     event, adds, last, reported>>

\* showSyncPopup's setTimeout removes the popup.
SyncPopupHides ==
  /\ syncPopup # NoPopup
  /\ syncPopup' = NoPopup
  /\ UNCHANGED <<table, syncs, syncRequests, transmitted, syncLoading,
                 sendButton, hookVars, conversationVars, variant, inputKind,
                 input, hasAuth, memory_enabled, isProcessingMem0, loading,
                 popup, lastInputValue, cycles, timers, nAdd, lastAdd, sent,
                 sendClicks, draftId, nTrigger, nSearch, lastTrigger, event,
                 adds, last, reported>>

\* The ChatGPT page with the settings dialog open: the memory table and the
\* Sync button in the document.
SyncInit ==
  /\ variant = "chatgpt"
  /\ inputKind = "div"
  /\ input = <<>>
  /\ sendButton = TRUE
  /\ hasAuth = FALSE
  /\ memory_enabled = TRUE
  /\ messageContainer = FALSE
  /\ conversation = <<>>
  /\ ScriptsLoaded
  /\ inputElement = [present |-> TRUE, enterKeyIntercepted |-> TRUE, listeners |-> 1]
  /\ mem0Buttons = 1
  /\ syncButtons = 1
  /\ buttonContainer = TRUE
  /\ mutated = {}
  /\ nMutations = 0
  /\ loaded = TRUE
  /\ lastEnter = 0
  /\ table \in Tables
  /\ syncs = <<>>
  /\ syncRequests = <<>>
  /\ transmitted = [r \in 1..Len(table.rows) |-> 0]
  /\ syncLoading = FALSE
  /\ syncPopup = NoPopup

SyncNext ==
  \/ handleSyncClick
  \/ \E k \in 1..Len(syncRequests), ok \in BOOLEAN : SyncRequestSettles(k, ok)
  \/ SyncPopupHides

SyncSpec == SyncInit /\ [][SyncNext]_vars

\* The host replaces the input element by a new one that holds the same
\* content, while a ChatGPT handler is suspended at its search: the element
\* the handler found before the search is no longer in the document.  (The
\* observers attach the interceptor to the new element before the next
\* event.)
HostReplacesInputElement ==
  /\ variant = "chatgpt"
  /\ event = NoEvent
  /\ \E i \in 1..Len(cycles) : cycles[i].inputElement.attached
  /\ cycles' = [i \in 1..Len(cycles) |->
                  IF cycles[i].inputElement.attached
                  THEN [cycles[i] EXCEPT !.inputElement = Detached(input)]
                  ELSE cycles[i]]
  /\ reported' = ""
  /\ UNCHANGED <<page, input, sendButton, isProcessingMem0, loading, popup,
                 lastInputValue, timers, nAdd, lastAdd, sent, sendClicks,
                 draftId, nTrigger, nSearch, lastTrigger, event, adds, last>>

\* The host replaces the send button by a new element while the ChatGPT
\* script's delayed click is pending: the button the callback holds is no
\* longer in the document.
HostReplacesSendButton ==
  /\ variant = "chatgpt"
  /\ event = NoEvent
  /\ sendButton
  /\ \E k \in 1..Len(timers) : ~timers[k].stale
  /\ timers' = [k \in 1..Len(timers) |-> [timers[k] EXCEPT !.stale = TRUE]]
  /\ reported' = ""
  /\ UNCHANGED <<page, input, sendButton, isProcessingMem0, loading, popup,
                 lastInputValue, cycles, nAdd, lastAdd, sent, sendClicks,
                 draftId, nTrigger, nSearch, lastTrigger, event, adds, last>>

\* The ChatGPT submission cycles on a page that re-renders its input and its
\* send button.
RerenderNext ==
  \/ UserType
  \/ HostRendersSendButton
  \/ PopupHides
  \/ DefaultAction
  \/ ChatGPTEnter
  \/ ChatGPTCtrlM
  \/ ChatGPTOtherKey
  \/ ChatGPTButton
  \/ \E i \in 1..Len(cycles), o \in Outcomes : ChatGPTSearchSettles(i, o)
  \/ SendTimerFires
  \/ \E ok \in BOOLEAN : AddSettles(ok)
  \/ HostReplacesInputElement
  \/ HostReplacesSendButton

RerenderSpec == ChatGPTInit /\ [][RerenderNext]_vars

\* What the user may have typed when the text may hold the characters
\* "</p>".
TypedTexts(kind) ==
  IF kind = "div"
  THEN {<<"P", "a", "/P">>, <<"P", "a", ENTITY, "b", "/P">>,
        <<"P", ENTITY, "/P">>}
  ELSE {<<"a">>, <<" ", "a", " ">>, <<"a", "/P", "b">>, <<"a", "/P">>,
        <<"/P", "a">>}

\* The user replaces the content of the input with such a text.
UserTypesText ==
  /\ variant = "chatgpt"
  /\ event = NoEvent
  /\ draftId < MaxDrafts
  /\ \E d \in TypedTexts(inputKind) : input' = d
  /\ draftId' = draftId + 1
  /\ reported' = ""
  /\ UNCHANGED <<page, sendButton, isProcessingMem0, loading, popup,
                 lastInputValue, cycles, timers, nAdd, lastAdd, sent,
                 sendClicks, nTrigger, nSearch, lastTrigger, event, adds, last>>

\* The ChatGPT submission cycles on such texts.
TypedTextNext ==
  \/ UserTypesText
  \/ HostRendersSendButton
  \/ PopupHides
  \/ DefaultAction
  \/ ChatGPTEnter
  \/ ChatGPTCtrlM
  \/ ChatGPTOtherKey
  \/ ChatGPTButton
  \/ \E i \in 1..Len(cycles), o \in Outcomes : ChatGPTSearchSettles(i, o)
  \/ SendTimerFires
  \/ \E ok \in BOOLEAN : AddSettles(ok)

TypedTextSpec == ChatGPTInit /\ [][TypedTextNext]_vars

\* The user deletes the content of the input while a handler is suspended at
\* its search.
UserClearsInput ==
  /\ variant = "chatgpt"
  /\ event = NoEvent
  /\ cycles # <<>>
  /\ input # <<>>
  /\ input' = <<>>
  /\ reported' = ""
  /\ UNCHANGED <<page, sendButton, isProcessingMem0, loading, popup,
                 lastInputValue, cycles, timers, nAdd, lastAdd, sent,
                 sendClicks, draftId, nTrigger, nSearch, lastTrigger, event,
                 adds, last>>

\* The ChatGPT submission cycles with a user who may delete the text.
ClearingNext ==
  \/ UserType
  \/ HostRendersSendButton
  \/ PopupHides
  \/ DefaultAction
  \/ ChatGPTEnter
  \/ ChatGPTCtrlM
  \/ ChatGPTOtherKey
  \/ ChatGPTButton
  \/ \E i \in 1..Len(cycles), o \in Outcomes : ChatGPTSearchSettles(i, o)
  \/ SendTimerFires
  \/ \E ok \in BOOLEAN : AddSettles(ok)
  \/ UserClearsInput

ClearingSpec == ChatGPTInit /\ [][ClearingNext]_vars

\* The submission cycles with a user who goes on typing.
TypingNext == Next \/ UserTypesMore

TypingSpec == Init /\ [][TypingNext]_vars

\* ------------------------------------------------------------ claims
PG == {"perplexity", "grok"}

Count(s, t) == Cardinality({i \in 1..Len(s) : s[i] = t})

IsPrefix(p, s) == Len(p) <= Len(s) /\ SubSeq(s, 1, Len(p)) = p

\* The memory texts of the bullet lines of a content, in order.
RECURSIVE BulletsOf(_)
BulletsOf(s) ==
  IF Len(s) < 2 THEN <<>>
  ELSE IF Head(s) = "-" THEN <<s[2]>> \o BulletsOf(Tail(Tail(s)))
  ELSE BulletsOf(Tail(s))

\* The text of a content of the input: the message the user reads.
TextOf(content) == IF inputKind = "div" THEN TextContent(content) ELSE content

\* C1: ChatGPT: a trigger (Enter, Ctrl+M, Mem0 button) handled while a search
\* is pending starts no search request and no add request, does not rewrite
\* the input, schedules no send click and clicks nothing.
C1_RejectedTriggerIsNoOp ==
  [][(variant = "chatgpt" /\ SearchPending /\ nTrigger' # nTrigger)
       => /\ nSearch' = nSearch
          /\ cycles' = cycles
          /\ nAdd' = nAdd
          /\ input' = input
          /\ timers' = timers
          /\ sendClicks' = sendClicks
          /\ sent' = sent]_vars

\* C1 witness: a trigger has been rejected while the one search is pending.
C1_Witness ==
  /\ variant = "chatgpt"
  /\ lastTrigger = "rejected"
  /\ SearchPending
  /\ nTrigger = 2
  /\ nSearch = 1

\* C2: Perplexity and Grok: an Enter pressed while an earlier cycle's search
\* is pending is a no-op, so the handler run it starts never gets as far as
\* issuing a search request (or the add request that follows it).
C2_SecondEnterIsNoOp ==
  variant \in PG =>
    \A i \in 1..Len(cycles) : cycles[i].reentrant => cycles[i].phase # "search"

\* C3: ChatGPT: the guard is held until the send control has been invoked: a
\* trigger handled while a send click is scheduled and has not fired yet is
\* rejected and starts no search.
C3_GuardHeldUntilSendClick ==
  [][(variant = "chatgpt" /\ timers # <<>> /\ nTrigger' # nTrigger)
       => (nSearch' = nSearch /\ cycles' = cycles)]_vars

\* C4: in every variant the send control is clicked at most once per draft.
C4_NoDoubleSend == \A d \in DOMAIN sendClicks : sendClicks[d] <= 1

\* C5: Perplexity and Grok: the textarea never holds the marker phrase twice.
C5_AtMostOneBlockInTextarea == variant \in PG => Count(input, MARKER) <= 1

\* C6: ChatGPT, contenteditable input: the markup never holds more than one
\* mem0-wrapper opening nor more than one marker phrase.
C6_AtMostOneBlockInMarkup ==
  (variant = "chatgpt" /\ inputKind = "div")
    => Count(input, WRAPPER) <= 1 /\ Count(input, MARKER) <= 1

\* C7: ChatGPT: the marker regex removal applied to the content the compose
\* step wrote returns the content the compose step started from.
C7_StripComposeRoundTrip ==
  (variant = "chatgpt" /\ last.kind = "memories")
    => ReplaceMemInfoRegex(last.out) = last.base

\* C8: in every variant, when the search returned no memories and the input
\* still held what was captured, the input afterwards holds the captured
\* message with any earlier block cut off at the marker, and no marker.
C8_EmptyComposeIsStrippedOriginal ==
  (last.kind = "empty" /\ last.base = last.captured)
    => /\ TextOf(last.out) = Trim(ReplaceMemInfoRegex(TextOf(last.captured)))
       /\ Count(last.out, MARKER) = 0

\* C9: in every variant, when the search returned n > 0 memories and the
\* input still held what was captured, the composed content starts with the
\* original message and holds exactly one block after it: the marker phrase
\* once, one wrapper at most, and the n memories as bullets in order.
C9_ComposeAppendsOneBlock ==
  (last.kind = "memories" /\ last.base = last.captured)
    => /\ IsPrefix(Trim(ReplaceMemInfoRegex(last.captured)), last.out)
       /\ Count(last.out, MARKER) = 1
       /\ Count(last.out, WRAPPER) <= 1
       /\ BulletsOf(last.out) = last.mems

\* C10: in every variant, a cycle that is to send (Enter) and whose search
\* failed while the send control was in the document still invokes the send
\* control: the handler schedules the click.
C10_FailedSearchStillReleases ==
  (last.kind = "error" /\ last.clickSend /\ last.sendBtn) => last.released


\* C11: in every variant, once the search of a cycle that is to send was
\* rejected with the send control in the document, and nothing of the cycle is
\* pending any more, the host has sent the captured message without a block.
C11_RejectedSearchSendsOriginal ==
  (/\ last.kind = "error" /\ last.clickSend /\ last.sendBtn
   /\ cycles = <<>> /\ timers = <<>> /\ event = NoEvent)
    => /\ Trim(TextOf(sent)) = Trim(ReplaceMemInfoRegex(TextOf(last.captured)))
       /\ Count(sent, MARKER) = 0

\* The ChatGPT script on its own.  The browser finishes the task of an event
\* it has dispatched, and every search request settles.
SearchSettles ==
  \E i \in 1..Len(cycles), o \in Outcomes : ChatGPTSearchSettles(i, o)

ChatGPTNext ==
  \/ UserType
  \/ HostRendersSendButton
  \/ PopupHides
  \/ DefaultAction
  \/ ChatGPTEnter
  \/ ChatGPTCtrlM
  \/ ChatGPTOtherKey
  \/ ChatGPTButton
  \/ SearchSettles
  \/ SendTimerFires
  \/ \E ok \in BOOLEAN : AddSettles(ok)

ChatGPTFairSpec ==
  /\ ChatGPTInit
  /\ [][ChatGPTNext]_vars
  /\ WF_vars(DefaultAction)
  /\ WF_vars(SearchSettles)

\* C12: ChatGPT: the in-progress flag is clear again and again: once set it
\* is eventually cleared, whatever the search answers and whether or not the
\* conversation can be read and the send control is in the document.
C12_NeverStuckInComposing == []<>(~isProcessingMem0)

\* C12 witness: after a cycle whose search failed, a later trigger has been
\* accepted and has issued the second search.
C12_Witness ==
  /\ variant = "chatgpt"
  /\ last.kind = "error"
  /\ lastTrigger = "started"
  /\ nSearch = 2
  /\ isProcessingMem0

\* C13: ChatGPT: a trigger of any kind (Enter, Ctrl+M, Mem0 button) that finds
\* the input empty shows the notice "No input message found", leaves the flag
\* as it was, and issues no search, no add and no send click.
C13_EmptyInputShowsNotice ==
  [][(/\ variant = "chatgpt"
      /\ nTrigger' # nTrigger
      /\ lastTrigger' # "ignored"
      /\ getInputValue = <<>>)
       => /\ popup' = "No input message found"
          /\ isProcessingMem0' = isProcessingMem0
          /\ cycles' = cycles
          /\ nSearch' = nSearch
          /\ nAdd' = nAdd
          /\ timers' = timers]_vars

\* C14: ChatGPT: a keydown dispatched to the input has both preventDefault and
\* stopPropagation called on it before the listener suspends exactly when it
\* is Enter without Shift; the host then gets no raw submission; Shift+Enter
\* is left alone and starts no cycle.
C14_EnterSuppressedIffUnshifted ==
  [][/\ (variant = "chatgpt" /\ event' # NoEvent /\ event'.ev.onInput)
          => /\ (event'.defaultPrevented /\ event'.propagationStopped)
                  <=> (event'.ev.key = "Enter" /\ ~event'.ev.shiftKey)
             /\ (event'.ev.key = "Enter" /\ event'.ev.shiftKey)
                  => /\ ~event'.defaultPrevented
                     /\ ~event'.propagationStopped
                     /\ cycles' = cycles
                     /\ nSearch' = nSearch
                     /\ isProcessingMem0' = isProcessingMem0
     /\ (variant = "chatgpt" /\ event # NoEvent /\ event' = NoEvent)
          => (input' = input /\ sent' = sent)]_vars

\* C14 witness: Enter without Shift has been suppressed and has started a
\* cycle; the browser has yet to take its default action.
C14_Witness ==
  /\ variant = "chatgpt"
  /\ event = Dispatched(Key("Enter", FALSE, FALSE, FALSE, TRUE), TRUE, TRUE)
  /\ lastTrigger = "started"
  /\ SearchPending

\* C15: ChatGPT: a keydown of M with the control key or with the meta key,
\* the input focused or not, runs the handler: with text in the input and no
\* cycle in progress it issues a search (or fails reading the conversation).
C15_CtrlOrCmdMStartsCycle ==
  [][(/\ variant = "chatgpt"
      /\ event = NoEvent /\ event' # NoEvent
      /\ event'.ev.key = "m"
      /\ (event'.ev.ctrlKey \/ event'.ev.metaKey)
      /\ getInputValue # <<>>
      /\ ~isProcessingMem0)
       => (nSearch' = nSearch + 1 \/ lastTrigger' = "threw")]_vars

\* C16: ChatGPT: a cycle started with Ctrl+M ends like one started with the
\* Mem0 button: when its search settles no send click is scheduled.
C16_CtrlMDoesNotSend ==
  [][(/\ variant = "chatgpt"
      /\ \E i \in 1..Len(cycles) :
           cycles[i].via = "ctrlm" /\ cycles' = RemoveAt(cycles, i))
       => timers' = timers]_vars

\* C17: in every variant the step that issues the add request has already
\* rewritten the input, scheduled the send click that is due and (ChatGPT)
\* cleared the flag, and the settling of an add request, with success or
\* failure, changes neither the flag, the cycles, the send timers, the clicks,
\* the input nor what was sent.
C17_AddIsDetached ==
  [][/\ (adds' = adds + 1)
          => /\ variant = "chatgpt" => ~isProcessingMem0'
             /\ Len(cycles') < Len(cycles)
             /\ last'.released => Len(timers') = Len(timers) + 1
     /\ (adds' = adds - 1)
          => UNCHANGED <<isProcessingMem0, cycles, timers, sendClicks, input,
                         sent, loading>>]_vars

\* C17 witness: the send click of a cycle has been made and the script is
\* idle while the cycle's add request has not completed.
C17_Witness ==
  /\ adds > 0
  /\ cycles = <<>>
  /\ timers = <<>>
  /\ ~isProcessingMem0
  /\ \E d \in DOMAIN sendClicks : sendClicks[d] = 1

\* C18: ChatGPT: the settling of an add request, failed or not, makes no
\* further POST to the add endpoint.
C18_NoAddRetry ==
  [][(variant = "chatgpt" /\ adds' = adds - 1) => nAdd' = nAdd]_vars

\* A step takes the response of cycle i's search request.
TakesResponse(i) == cycles[i].phase = "search" /\ cycles' = RemoveAt(cycles, i)

C20_AddAfterSendClick ==
  [][(adds' = adds + 1) => timers' = timers]_vars


\* C21: in every variant the completion of an add request, with success or
\* failure, also when a later cycle has begun in the meantime, leaves the
\* in-progress flag, the content of the input, the scripts' copy of it and
\* every pending cycle (its captured text, its message, its position) as
\* they were.
C21_AddCompletionFrame ==
  [][(adds' = adds - 1)
       => /\ isProcessingMem0' = isProcessingMem0
          /\ input' = input
          /\ lastInputValue' = lastInputValue
          /\ Len(cycles') = Len(cycles)
          /\ \A i \in 1..Len(cycles) :
               /\ cycles'[i].message = cycles[i].message
               /\ cycles'[i].captured = cycles[i].captured
               /\ cycles'[i].phase = cycles[i].phase]_vars

\* C21 witness: the second cycle's search is pending, the flag of the ChatGPT
\* script set, and the add request of the first cycle has completed.
C21_Witness ==
  /\ nSearch = 2
  /\ last.kind \in {"memories", "empty"}
  /\ SearchPending
  /\ variant = "chatgpt" => isProcessingMem0
  /\ nAdd > 0
  /\ adds = 0

\* C22: when the send control is not in the document as the release step
\* looks it up (ChatGPT: in the step that takes a successful search response
\* of a cycle that is to send; Perplexity and Grok: as the send timer fires),
\* the step logs "Send button not found" and does not throw: the input holds
\* what the compose step wrote, nothing is sent, and the cycle is over: the
\* ChatGPT flag is clear, the add request has gone out, no cycle is left
\* changed.
C22_MissingSendControlReported ==
  [][/\ (/\ variant = "chatgpt"
         /\ ~sendButton
         /\ \E i \in 1..Len(cycles) : TakesResponse(i) /\ cycles[i].clickSend
         /\ last'.kind # "error")
          => /\ reported' = "Send button not found"
             /\ input' = last'.out
             /\ last'.kind = "memories" => Count(input', MARKER) >= 1
             /\ sent' = sent
             /\ timers' = timers
             /\ ~isProcessingMem0'
             /\ nAdd' = nAdd + 1
     /\ (/\ variant \in PG
         /\ ~sendButton
         /\ Len(timers') < Len(timers))
          => /\ reported' = "Send button not found"
             /\ input' = input
             /\ sent' = sent
             /\ sendClicks' = sendClicks
             /\ cycles' = cycles]_vars

\* C22 witness: the release step has just logged that the send control is
\* missing, and the input holds the composed content with its block.
C22_Witness ==
  /\ reported = "Send button not found"
  /\ ~sendButton
  /\ last.kind = "memories"
  /\ input = last.out
  /\ Count(input, MARKER) = 1

\* The children of the message container that hold a user or an assistant
\* element, oldest first, and the last n of them as messages.
RoleTurns == SelectSeq(conversation, LAMBDA t : t.user \/ t.assistant)

AsMessage(t) ==
  [role |-> IF t.user THEN "user" ELSE "assistant", content |-> Trim(t.text)]

LastTurns(n) ==
  LET k == IF n < Len(RoleTurns) THEN n ELSE Len(RoleTurns)
  IN  [i \in 1..k |-> AsMessage(RoleTurns[Len(RoleTurns) - k + i])]

\* C23: ChatGPT: the array built for the add request is the last two turns of
\* the conversation that carry a user or an assistant role (fewer when there
\* are fewer), oldest first, followed by the new user message; and a call
\* getLastMessages(count) that returns, returns the last count such turns,
\* never more than count messages.
C23_AddMessagesAreContext ==
  /\ messages # <<>>
       => /\ messages[Len(messages)] =
               [role |-> "user", content |-> StrippedMessage(getInputValue)]
          /\ SubSeq(messages, 1, Len(messages) - 1) = LastTurns(2)
  /\ (returned.called /\ ~returned.threw)
       => /\ Len(returned.value) <= returned.count
          /\ returned.value = LastTurns(returned.count)

\* C23 witness: the last child of the conversation carries no role and two
\* turns before it do; the array built holds those two turns, oldest first,
\* and the new message, and getLastMessages(1) has returned the later turn.
C23_Witness ==
  /\ Len(conversation) = 3
  /\ ~conversation[3].user /\ ~conversation[3].assistant
  /\ Len(RoleTurns) = 2
  /\ Len(messages) = 3
  /\ messages[1] = AsMessage(conversation[1])
  /\ messages[1] # messages[2]
  /\ returned.called /\ returned.count = 1
  /\ returned.value = <<AsMessage(conversation[2])>>

\* A step takes the response resp to the search of cycle i.
TakesSearchResponse(i, resp) ==
  \/ ChatGPTSearchSettles(i, resp)
  \/ PerplexitySearchSettles(i, resp)
  \/ GrokSearchSettles(i, resp)

\* C24: in every variant a search answered 200 with {data: {results: R}} or
\* with {results: R} composes with the memory fields of R in order, and one
\* answered 200 with neither field composes as with no memories; in each case
\* the click that is due is scheduled.
C24_EitherShapeAccepted ==
  [][\A i \in 1..Len(cycles), resp \in Outcomes :
       (resp.ok /\ TakesSearchResponse(i, resp))
         => LET R == IF resp.data.has THEN resp.data.list
                     ELSE IF resp.results.has THEN resp.results.list
                     ELSE <<>>
            IN  /\ last'.kind = (IF R = <<>> THEN "empty" ELSE "memories")
                /\ last'.mems = R
                /\ BulletsOf(last'.out) = R
                /\ (cycles[i].clickSend /\ sendButton)
                     => timers' = Append(timers, ClickTimer(cycles[i].draft))]_vars

\* C25: in every variant the step that takes the response of a search that
\* failed and the step that takes one that succeeded with no results end the
\* same way: the input holds the message that was captured, without a memory
\* block, and the send click is scheduled exactly when the cycle is to send
\* and the send control is there.
C25_FailureLikeNoResults ==
  [][\A i \in 1..Len(cycles) :
       (TakesResponse(i) /\ last'.kind \in {"error", "empty"})
         => /\ Count(input', MARKER) = 0
            /\ Trim(TextOf(input')) =
                 Trim(ReplaceMemInfoRegex(TextOf(cycles[i].captured)))
            /\ (Len(timers') = Len(timers) + 1)
                 <=> (cycles[i].clickSend /\ (variant = "chatgpt" => sendButton))]_vars

\* C26: Perplexity and Grok: with memory_enabled stored as false no search and
\* no add request is ever made, and the step in which the handler of an
\* intercepted Enter reads the setting leaves the textarea as it is and
\* schedules the click on the send control.
C26_MemoryDisabledPassesThrough ==
  [][(variant \in PG /\ ~memory_enabled)
       => /\ nSearch' = 0
          /\ nAdd' = 0
          /\ \A i \in 1..Len(cycles) :
               (cycles[i].phase = "storage" /\ cycles' = RemoveAt(cycles, i))
                 => /\ input' = input
                    /\ timers' = Append(timers, ClickTimer(cycles[i].draft))]_vars

\* C27: ChatGPT: whatever the host does to the document and in whatever order
\* the two observers' callbacks and the DOMContentLoaded listener run, the
\* document holds at most one Mem0 button, the input element carries at most
\* one Enter interceptor, and an Enter on the input runs at most one.
C27_HooksAttachedOnce ==
  /\ mem0Buttons <= 1
  /\ inputElement.listeners <= 1
  /\ lastEnter <= 1

\* C27 witness: after DOMContentLoaded and three changes of the document,
\* both observers notified of each, the input carries one interceptor, the
\* document one Mem0 button, and an Enter has run the interceptor.
C27_Witness ==
  /\ loaded
  /\ nMutations = 3
  /\ mutated = {}
  /\ mem0Buttons = 1
  /\ inputElement.listeners = 1
  /\ lastEnter = 1

\* The hooks are in place: the input element, if there is one, carries the
\* interceptor; with a send button there is a Mem0 button.
Hooked ==
  /\ inputElement.present
       => (inputElement.enterKeyIntercepted /\ inputElement.listeners = 1)
  /\ sendButton => mem0Buttons = 1

\* C28: ChatGPT: after a change of the document by the host (a new input
\* element, the Mem0 button removed) the observers' callbacks run and leave
\* the hooks in place: observerForEnterKey's callback leaves the interceptor
\* on the input element, observer's callback leaves a Mem0 button if there is
\* a send button, and an Enter on the input then runs the interceptor.
C28_HooksReattached ==
  /\ [][/\ ObserverForEnterKeyCallback
             => (inputElement'.present
                   => /\ inputElement'.enterKeyIntercepted
                      /\ inputElement'.listeners = 1)
        /\ ObserverCallback => (sendButton' => mem0Buttons' = 1)
        /\ (EnterOnInput /\ nMutations > 0) => lastEnter' = 1]_vars
  /\ (mutated # {}) ~> (mutated = {} /\ Hooked)

\* C28 witness: the host has replaced the input element and removed the Mem0
\* button after the hooks had been attached; the observers have been
\* notified, the hooks are in place again and an Enter has been intercepted.
C28_Witness ==
  /\ loaded
  /\ nMutations >= 2
  /\ mutated = {}
  /\ sendButton
  /\ Hooked
  /\ inputElement.present
  /\ lastEnter = 1

\* C29: ChatGPT: when observer's callback has run with no send button in the
\* document there is no Mem0 button in it, and when it has run with no button
\* container there is no Sync button.
C29_OrphanedButtonsRemoved ==
  [][ObserverCallback
       => /\ ~sendButton' => mem0Buttons' = 0
          /\ ~buttonContainer' => syncButtons' = 0]_vars

\* C30: in every variant, a character the user typed into the input after a
\* cycle captured its message is still in the input after the step that
\* takes the cycle's search response and composes, with memories found and
\* with none.
C30_NoLostKeystrokes ==
  [][\A i \in 1..Len(cycles) :
       (/\ TakesResponse(i)
        /\ last'.kind \in {"memories", "empty"}
        /\ Count(cycles[i].captured, "k") = 0
        /\ Count(input, "k") = 1)
         => Count(input', "k") = 1]_vars

\* C31: in every variant, with neither an API key nor an access token stored
\* (and memory enabled), the handler of a trigger that found text issues the
\* search: the ChatGPT handler in the step of the trigger, the Perplexity and
\* Grok handlers in the step that reads the storage, in which the cycle is
\* not dropped.
C31_NoKeyStillSearches ==
  [][(~hasAuth /\ memory_enabled)
       => /\ (variant = "chatgpt" /\ lastTrigger' = "started" /\ nTrigger' # nTrigger)
               => nSearch' = nSearch + 1
          /\ \A i \in 1..Len(cycles) :
               (/\ cycles[i].phase = "storage"
                /\ \/ cycles' = RemoveAt(cycles, i)
                   \/ cycles' = [cycles EXCEPT ![i].phase = "search"])
                 => /\ nSearch' = nSearch + 1
                    /\ cycles' = [cycles EXCEPT ![i].phase = "search"]]_vars

\* C32: ChatGPT: when the step that takes a successful search response with
\* memories composes, the input element in the document holds the composed
\* content with its block, also when the host has replaced the element the
\* handler found before the search.
C32_ComposeIntoCurrentElement ==
  [][\A i \in 1..Len(cycles) :
       (variant = "chatgpt" /\ TakesResponse(i) /\ last'.kind = "memories")
         => /\ input' = last'.out
            /\ Count(input', MARKER) >= 1]_vars

\* C33: ChatGPT: when the delayed click fires while a send button is in the
\* document and the input holds content, the click reaches that button and
\* the host sends the content, also when the host has re-rendered the button
\* since the click was scheduled.
C33_ClickReachesCurrentButton ==
  [][(/\ variant = "chatgpt"
      /\ timers # <<>>
      /\ timers' = Tail(timers)
      /\ sendButton
      /\ input # <<>>)
       => /\ sent' = input
          /\ input' = <<>>]_vars

\* C34: ChatGPT: a step of a cycle that issues an add request also invokes the
\* native send (it schedules the click of a send button it found): a cycle
\* begun from the Mem0 button without auto-send, or one that finds no send
\* button, issues no add request.
C34_AddOnlyWhenReleased ==
  [][(variant = "chatgpt" /\ adds' = adds + 1)
       => /\ last'.released
          /\ Len(timers') = Len(timers) + 1]_vars

\* The tokens of an injected memory block: its wrapper markup, the marker
\* phrase, the bullets and the memory texts.
BlockTokens == {WRAPPER, "S", "/S", "D", "/D", MARKER, "-", "m1", "m2"}

\* C35: ChatGPT: the message of a cycle (the search query and the new user
\* message of the add request) holds nothing of a previously injected memory
\* block, neither the marker phrase nor any other text of the block.
C35_QueryHoldsNoBlock ==
  variant = "chatgpt"
    => /\ \A i \in 1..Len(cycles) :
            \A k \in 1..Len(cycles[i].message) :
              cycles[i].message[k] \notin BlockTokens
       /\ \A k \in 1..Len(lastAdd) : lastAdd[k] \notin BlockTokens

\* A content that holds nothing of an injected memory block.
NoBlock(content) == \A k \in 1..Len(content) : content[k] \notin BlockTokens

\* C36: ChatGPT: for a typed text that holds no injected memory block, the
\* message of the cycle (search query and add content) is the typed text
\* with only its leading and trailing whitespace removed, and in the
\* no-memories case the text restored into the input is that same text, also
\* when the typed text holds the characters "</p>".
C36_MessageIsTrimmedText ==
  variant = "chatgpt"
    => /\ \A i \in 1..Len(cycles) :
            NoBlock(cycles[i].captured)
              => cycles[i].message = Trim(TextOf(cycles[i].captured))
       /\ (last.kind = "empty" /\ NoBlock(last.captured))
            => /\ TextOf(last.out) = Trim(TextOf(last.captured))
               /\ lastAdd = Trim(TextOf(last.captured))

\* C37: ChatGPT: between the steps of the handlers the trigger button's
\* loading state is on exactly when the in-progress flag is set, also after
\* a trigger that the guard rejected and after a trigger on an emptied input.
C37_LoadingIffProcessing ==
  (variant = "chatgpt" /\ event = NoEvent) => (loading <=> isProcessingMem0)

\* C38: ChatGPT: no step of a cycle handler ends in an unhandled promise
\* rejection, whichever trigger began the cycle: a failure of the handler is
\* caught by its caller.
C38_RejectionsHandled ==
  variant = "chatgpt" => reported # unhandledRejection

\* C39: ChatGPT sync flow: one click on the Sync button transmits the memory
\* of each row of the table (each row with a memory text) to the add
\* endpoint exactly once.
C39_EachRowSentOnce ==
  [][(Len(syncs') = Len(syncs) + 1)
       => \A r \in 1..Len(table.rows) :
            table.rows[r] \notin {NoCells, NoDiv}
              => transmitted'[r] = transmitted[r] + 1]_vars

=============================================================================
